---- MODULE Spec2Model ----
(***************************************************************************)
(* Model of the Cheshire East bin-collection skill: the schedule parser    *)
(* (CheshireEastClient.parseBinResponse / parseBinType), the freshness     *)
(* evaluator (DynamoDBDao.isBinDataStale), the next-collection resolver    *)
(* (LaunchRequestHandler.findNextBinCollectionData) and the request        *)
(* orchestration around them (handle / obtainPropertyData /                *)
(* buildBinString).                                                        *)
(*                                                                         *)
(* Text is modelled as a sequence of integer tokens: a token >= 0 is a     *)
(* run of digits (its value), a token < 0 is a chunk of non-digit text     *)
(* (the codes below).  A date string "30/11/2026" is <<30, SL, 11, SL,     *)
(* 2026>>; a description "Empty Standard Garden Waste" is <<ES, GW>>.      *)
(***************************************************************************)
EXTENDS Integers, Sequences, FiniteSets, TLC

VARIABLES
    pc,                 \* position of the running call / request
    now,                \* moment(): today's date, <<day, month, year>>
    propertyData,       \* the PropertyData in hand (or NULL)
    nextCollectionData, \* result of findNextBinCollectionData
    stale,              \* result of isBinDataStale
    response,           \* upstream markup handed to parseBinResponse
    lastIndex,          \* BIN_COLLECTION_DETAIL_PATTERN.lastIndex (global regex)
    matches,            \* parseBinResponse: the extracted fragments
    parsed,             \* parseBinResponse: the returned BinCollectionData[]
    error,              \* the fault that ended the call ("none" when none)
    address,            \* the device address of the request
    table,              \* the DynamoDB table: the set of its items
    calls,              \* upstream / cache calls made by the request, in order
    speech,             \* the spoken answer (or NULL)
    consentToken,       \* whether the request carries the address permission
    shortAddress,       \* the ShortAddress findDeviceAddress built (or NULL)
    data,               \* the item the cache get returned (NULL: none, or no get yet)
    uprn,               \* the property id the upstream lookup returned (or NoText)
    binTypeArg,         \* parseBinType: the description it is given
    binTypeResult,      \* parseBinType: the container kind it returns
    refreshCalls,       \* refreshBinData calls made by the running resolver call
    refresh,            \* position of the unawaited refreshBinData task
    previousResult,     \* what the resolver returned the call before
    match,              \* parseBinResponse: the last result of the pattern's exec
    cursor,             \* the index of a loop that is running (i, or the for-of position)
    filtered            \* isBinDataStale: the items its filter has kept so far

vars == <<pc, now, propertyData, nextCollectionData, stale, response, lastIndex,
          matches, parsed, error, address, table, calls, speech, consentToken,
          shortAddress, data, uprn, binTypeArg, binTypeResult, refreshCalls,
          refresh, previousResult, match, cursor, filtered>>

\* the variables of the request orchestration, and those of parseBinType
requestVars == <<address, table, calls, speech, consentToken, shortAddress, data,
                 uprn>>
binTypeVars == <<binTypeArg, binTypeResult>>
resolverVars == <<refreshCalls, refresh, previousResult>>
loopVars == <<match, cursor, filtered>>

\* null for objects (records), and for texts (no character has code -1)
NULL == [null |-> TRUE]
NoText == <<0 - 1>>

-----------------------------------------------------------------------------
(* Text tokens: the non-digit chunks of the texts the program handles *)
Tok == [SL      |-> 0 - 1,   \* "/"
        ES      |-> 0 - 2,   \* "Empty Standard "
        GW      |-> 0 - 3,   \* "Garden Waste"
        MR      |-> 0 - 4,   \* "Mixed Recycling"
        GEN     |-> 0 - 5,   \* "General Waste"
        GWL     |-> 0 - 6,   \* "garden waste" (lower case)
        DAYNAME |-> 0 - 7,   \* a day label such as "Tuesday"
        DASH    |-> 0 - 8]   \* "-"

-----------------------------------------------------------------------------
(* moment: calendar dates *)

IsLeap(y) == (y % 4 = 0 /\ y % 100 # 0) \/ y % 400 = 0

DaysInMonth(m, y) ==
    IF m = 2 THEN (IF IsLeap(y) THEN 29 ELSE 28)
    ELSE IF m \in {4, 6, 9, 11} THEN 30 ELSE 31

Numerals(text) == SelectSeq(text, LAMBDA t : t >= 0)

\* moment(text, "DD/MM/YYYY"), not strict: the digit runs of the text fill day,
\* month and year in that order; missing higher units default to today's; a
\* text with no digits, or a day or month out of range, is an invalid moment.
momentParse(text, today) ==
    LET n == Numerals(text)
        d == IF Len(n) >= 1 THEN n[1] ELSE 0
        m == IF Len(n) >= 2 THEN n[2] ELSE today[2]
        y == IF Len(n) >= 3 THEN n[3] ELSE today[3]
        ok == /\ Len(n) >= 1
              /\ m \in 1..12
              /\ d >= 1
              /\ d <= DaysInMonth(m, y)
    IN  [valid |-> ok, d |-> d, m |-> m, y |-> y]

momentNow(today) == [valid |-> TRUE, d |-> today[1], m |-> today[2], y |-> today[3]]

\* calendar order of two valid moments at 'day' granularity
DayBefore(a, b) ==
    \/ a.y < b.y
    \/ a.y = b.y /\ a.m < b.m
    \/ a.y = b.y /\ a.m = b.m /\ a.d < b.d

SameDay(a, b) == a.y = b.y /\ a.m = b.m /\ a.d = b.d

\* a variant that takes isAfter for isSameOrAfter: today's collections are missed
isAfterOnly(a, b) == a.valid /\ b.valid /\ DayBefore(b, a)

\* a.isSameOrAfter(b, 'day'): false when either moment is invalid
isSameOrAfter(a, b) == a.valid /\ b.valid /\ ~DayBefore(a, b)

\* a.isSame(b): false when either moment is invalid
isSame(a, b) == a.valid /\ b.valid /\ SameDay(a, b)

\* now.add(1, 'day')
addOneDay(a) ==
    IF a.d < DaysInMonth(a.m, a.y) THEN [a EXCEPT !.d = a.d + 1]
    ELSE IF a.m < 12 THEN [a EXCEPT !.d = 1, !.m = a.m + 1]
    ELSE [a EXCEPT !.d = 1, !.m = 1, !.y = a.y + 1]

-----------------------------------------------------------------------------
(* models/BinCollectionData, models/PropertyData *)

BinCollectionData(collectionDay, collectionDate, binType) ==
    [collectionDay |-> collectionDay, collectionDate |-> collectionDate,
     binType |-> binType]

PropertyData(addressLine1, propertyId, binCollectionData) ==
    [addressLine1 |-> addressLine1, propertyId |-> propertyId,
     binCollectionData |-> binCollectionData]

-----------------------------------------------------------------------------
(* LaunchRequestHandler: the next-collection resolver *)

\* a variant that pairs any two entries with readable dates
matchesAnyReadableDate(existingDate, newDate, today) ==
    momentParse(existingDate, today).valid /\ momentParse(newDate, today).valid

matchesExistingDate(existingDate, newDate, today) ==
    isSame(momentParse(existingDate, today), momentParse(newDate, today))

RECURSIVE scanNextKeepLooking(_, _, _, _)
\* a variant that does not break when the next qualifying entry has another date
scanNextKeepLooking(items, i, today, next) ==
    IF i > Len(items) THEN next
    ELSE LET item == items[i] IN
        IF isSameOrAfter(momentParse(item.collectionDate, today), momentNow(today))
        THEN IF Len(next) = 1
             THEN IF matchesExistingDate(next[1].collectionDate, item.collectionDate, today)
                  THEN Append(next, item)
                  ELSE scanNextKeepLooking(items, i + 1, today, next)
             ELSE IF item.binType = "Black"
                  THEN Append(next, item)
                  ELSE scanNextKeepLooking(items, i + 1, today, Append(next, item))
        ELSE scanNextKeepLooking(items, i + 1, today, next)

RECURSIVE scanNextBlackPaired(_, _, _, _)
\* a variant without the Black test: a Black entry is treated like any other
scanNextBlackPaired(items, i, today, next) ==
    IF i > Len(items) THEN next
    ELSE LET item == items[i] IN
        IF isSameOrAfter(momentParse(item.collectionDate, today), momentNow(today))
        THEN IF Len(next) = 1
             THEN IF matchesExistingDate(next[1].collectionDate, item.collectionDate, today)
                  THEN Append(next, item)
                  ELSE next
             ELSE scanNextBlackPaired(items, i + 1, today, Append(next, item))
        ELSE scanNextBlackPaired(items, i + 1, today, next)

RECURSIVE scanNext(_, _, _, _)
\* the for-loop of findNextBinCollectionData from item i on, with the result so far
scanNext(items, i, today, next) ==
    IF i > Len(items) THEN next
    ELSE LET item == items[i] IN
        IF isSameOrAfter(momentParse(item.collectionDate, today), momentNow(today))
        THEN IF Len(next) = 1
             THEN IF matchesExistingDate(next[1].collectionDate, item.collectionDate, today)
                  THEN Append(next, item)      \* push; break
                  ELSE next                    \* break
             ELSE IF item.binType = "Black"
                  THEN Append(next, item)      \* push; break
                  ELSE scanNext(items, i + 1, today, Append(next, item))
        ELSE scanNext(items, i + 1, today, next)

\* The exception built when the result is empty is not thrown: the result is returned.
findNextBinCollectionData(pd, today) ==
    scanNext(pd.binCollectionData, 1, today, <<>>)

-----------------------------------------------------------------------------
(* DynamoDBDao: the freshness evaluator *)

collectionIsTodayOrLater(today, item) ==
    isSameOrAfter(momentParse(item.collectionDate, today), momentNow(today))

\* The filter callback `item => { this.collectionIsTodayOrLater(now, item); }`:
\* a block body with no return statement, so its value is undefined (falsy).
staleFilterCallback(today, item) ==
    LET discarded == collectionIsTodayOrLater(today, item) IN FALSE

StaleThreshold == 3

isBinDataStale(binCollectionData, today) ==
    LET filteredCollectionData ==
            SelectSeq(binCollectionData, LAMBDA item : staleFilterCallback(today, item))
    IN  Len(filteredCollectionData) <= StaleThreshold

-----------------------------------------------------------------------------
(* CheshireEastClient: the schedule parser *)

\* String.replace("Empty Standard ", ""): removes the first occurrence of the
\* chunk, wherever it is in the text.
RECURSIVE replaceFirst(_, _)
replaceFirst(text, tok) ==
    IF text = <<>> THEN <<>>
    ELSE IF Head(text) = tok THEN Tail(text)
    ELSE <<Head(text)>> \o replaceFirst(Tail(text), tok)

parseBinType(binTypeString) ==
    LET binType == replaceFirst(binTypeString, Tok.ES) IN
    IF binType = <<Tok.GW>> THEN "Green"
    ELSE IF binType = <<Tok.MR>> THEN "Silver"
    ELSE "Black"

\* a variant for a pattern without the g flag: exec searches from the start of
\* the body every time and leaves lastIndex at 0
regexExecNotGlobal(resp, from) ==
    IF 1 <= Len(resp.frags)
    THEN [match |-> <<resp.frags[1]>>, lastIndex |-> 0]
    ELSE [match |-> <<>>, lastIndex |-> 0]

\* A response body is [frags, width]: its matches of BIN_COLLECTION_DETAIL_PATTERN
\* in order of occurrence (the captured group of each), each match `width`
\* characters long, so that match i ends at offset i * width.
\* BIN_COLLECTION_DETAIL_PATTERN.exec(response) with the pattern's lastIndex at
\* `from`: the first match that starts at or after `from`; null, and lastIndex
\* back to 0, when there is none.
regexExec(resp, from) ==
    LET i == ((from + resp.width - 1) \div resp.width) + 1 IN
    IF i <= Len(resp.frags)
    THEN [match |-> <<resp.frags[i]>>, lastIndex |-> i * resp.width]
    ELSE [match |-> <<>>, lastIndex |-> 0]    \* null

MaxMatches == 30

RECURSIVE extractLoop(_, _, _, _)
\* the while-loop of parseBinResponse: r is the last exec result
extractLoop(resp, r, ms, counter) ==
    IF r.match # <<>> /\ counter < MaxMatches
    THEN extractLoop(resp, regexExec(resp, r.lastIndex),
                     Append(ms, r.match[1]), counter + 1)
    ELSE [matches |-> ms, lastIndex |-> r.lastIndex]

DuffMatches == 3

RECURSIVE groupLoop(_, _, _)
\* the grouping loop; i is the 0-based index of the code
groupLoop(ms, i, acc) ==
    IF i < Len(ms) - DuffMatches
    THEN groupLoop(ms, i + 3,
             Append(acc, BinCollectionData(ms[i + 1], ms[i + 2], parseBinType(ms[i + 3]))))
    ELSE acc

\* a variant without the `matches.length === 0` check
parseBinResponseUnchecked(resp, from) ==
    LET ex == extractLoop(resp, regexExec(resp, from), <<>>, 0) IN
    [threw |-> FALSE, value |-> groupLoop(ex.matches, 0, <<>>),
     matches |-> ex.matches, lastIndex |-> ex.lastIndex]

\* parseBinResponse(response) with the global pattern's lastIndex at `from`:
\* what it extracted, what it returned or that it threw, and the lastIndex left.
parseBinResponse(resp, from) ==
    LET ex == extractLoop(resp, regexExec(resp, from), <<>>, 0) IN
    IF Len(ex.matches) = 0
    THEN [threw |-> TRUE, value |-> <<>>, matches |-> ex.matches,
          lastIndex |-> ex.lastIndex]
    ELSE [threw |-> FALSE, value |-> groupLoop(ex.matches, 0, <<>>),
          matches |-> ex.matches, lastIndex |-> ex.lastIndex]

-----------------------------------------------------------------------------
(* Address and key texts are sequences of character codes (ASCII) *)

\* a variant that leaves the case of every letter as it is
keepCase(str) == str

toUpperCase(str) ==
    [i \in 1..Len(str) |-> IF str[i] \in 97..122 THEN str[i] - 32 ELSE str[i]]

HexDigit(n) == IF n < 10 THEN 48 + n ELSE 55 + n

\* encodeURIComponent: letters and digits stay, any other character becomes %XX
RECURSIVE encodeURIComponent(_)
encodeURIComponent(str) ==
    IF str = <<>> THEN <<>>
    ELSE LET c == Head(str) IN
         (IF c \in (48..57) \cup (65..90) \cup (97..122)
          THEN <<c>>
          ELSE <<37, HexDigit(c \div 16), HexDigit(c % 16)>>)
         \o encodeURIComponent(Tail(str))

ShortAddress(addressLine1, postCode) ==
    [addressLine1 |-> addressLine1, postCode |-> postCode]

\* a variant that fails only for a missing address line
findDeviceAddressLineOnly(addr) ==
    IF addr.addressLine1 = NoText
    THEN [threw |-> TRUE, value |-> NULL]
    ELSE [threw |-> FALSE,
          value |-> ShortAddress(toUpperCase(addr.addressLine1),
                                 toUpperCase(addr.postalCode))]

\* findDeviceAddress, lines 297-305: threw is the Error thrown when the address
\* line or the postal code is null
findDeviceAddress(addr) ==
    IF addr.addressLine1 = NoText \/ addr.postalCode = NoText
    THEN [threw |-> TRUE, value |-> NULL]
    ELSE [threw |-> FALSE,
          value |-> ShortAddress(toUpperCase(addr.addressLine1),
                                 toUpperCase(addr.postalCode))]

\* JSON.stringify / JSON.parse of a BinCollectionData[]
JSONstringify(value) == [json |-> value]
JSONparse(str) == str.json

\* a stored text that JSON.parse rejects with a SyntaxError
NotJSON == [garbled |-> TRUE]
JSONreadable(str) == "json" \in DOMAIN str

-----------------------------------------------------------------------------
(* DynamoDBDao: the cache gateway.  The table is the set of its items, at most
   one for each value of the key attribute addressLine1. *)

dynamoGet(tbl, key) ==
    IF \E it \in tbl : it.addressLine1 = key
    THEN [Item |-> CHOOSE it \in tbl : it.addressLine1 = key]
    ELSE [Item |-> NULL]

\* a put that leaves a record already stored under the key as it is
dynamoPutIfAbsent(tbl, item) ==
    IF \E it \in tbl : it.addressLine1 = item.addressLine1 THEN tbl
    ELSE tbl \cup {item}

\* a put that overwrites the whole table
dynamoPutAlone(tbl, item) == {item}

dynamoPut(tbl, item) ==
    {it \in tbl : it.addressLine1 # item.addressLine1} \cup {item}

daoKey(addressLine1, postalCode) == addressLine1 \o <<58>> \o postalCode

\* getPropertyDataFromDatabase: `got` is what dynamoDB.get resolved to, NULL when
\* the client failed (data stays null).  threw: an exception leaves the method,
\* the TypeError of `data.Item` of a null data or of `.binCollectionData` of a
\* null propertyDataToReturn, or the SyntaxError of JSON.parse.
getPropertyDataFromDatabase(addressLine1, got, today) ==
    IF got = NULL THEN [threw |-> TRUE, value |-> NULL]
    ELSE IF /\ got.Item # NULL /\ got.Item.propertyId # NoText
            /\ got.Item.binCollectionData # NULL
            /\ ~JSONreadable(got.Item.binCollectionData)
    THEN [threw |-> TRUE, value |-> NULL]
    ELSE LET propertyDataToReturn ==
                 IF got.Item # NULL /\ got.Item.propertyId # NoText
                    /\ got.Item.binCollectionData # NULL
                 THEN PropertyData(addressLine1, got.Item.propertyId,
                                   JSONparse(got.Item.binCollectionData))
                 ELSE NULL
         IN  IF propertyDataToReturn = NULL THEN [threw |-> TRUE, value |-> NULL]
             ELSE IF isBinDataStale(propertyDataToReturn.binCollectionData, today)
                  THEN [threw |-> FALSE, value |-> NULL]
                  ELSE [threw |-> FALSE, value |-> propertyDataToReturn]

\* obtainPropertyData without its try/catch: the lookup's exception leaves it
obtainFromDatabaseUncaught(addressLine1, got, today) ==
    getPropertyDataFromDatabase(addressLine1, got, today)

\* obtainPropertyData, lines 311-317: whatever the lookup throws is caught and
\* logged, and propertyData stays null
obtainFromDatabase(addressLine1, got, today) ==
    LET r == getPropertyDataFromDatabase(addressLine1, got, today) IN
    IF r.threw THEN [threw |-> FALSE, value |-> NULL] ELSE r

putItem(pd) ==
    [addressLine1 |-> pd.addressLine1,
     binCollectionData |-> JSONstringify(pd.binCollectionData),
     propertyId |-> pd.propertyId]

-----------------------------------------------------------------------------
(* LaunchRequestHandler: the spoken answer *)

findCollectionDay(bcd, today) ==
    LET date == momentParse(bcd.collectionDate, today)
        n == momentNow(today)
    IN  IF isSame(n, date) THEN <<"Today">>
        ELSE IF isSame(addOneDay(n), date) THEN <<"Tomorrow">>
        ELSE <<"on", bcd.collectionDay>>

\* buildBinString: threw is the TypeError of reading binCollectionData[0].binType
\* when the resolver returned no entry.
buildBinString(pd, today) ==
    LET binCollectionData == findNextBinCollectionData(pd, today) IN
    IF Len(binCollectionData) = 2
    THEN [threw |-> FALSE,
          value |-> [binType |-> <<binCollectionData[1].binType, "and",
                                   binCollectionData[2].binType>>,
                     due |-> findCollectionDay(binCollectionData[1], today)]]
    ELSE IF Len(binCollectionData) = 0
    THEN [threw |-> TRUE, value |-> NULL]
    ELSE [threw |-> FALSE,
          value |-> [binType |-> <<binCollectionData[1].binType>>,
                     due |-> findCollectionDay(binCollectionData[1], today)]]

-----------------------------------------------------------------------------
(* Inputs of the schedule functions *)

MaxLen == 4     \* longest schedule drawn

BinTypes == {"Black", "Silver", "Green"}

DateText(d, m, y) == <<d, Tok.SL, m, Tok.SL, y>>

\* 29/11, 30/11, 01/12 and the invalid 31/11, all of 2026
DateTexts == {DateText(29, 11, 2026), DateText(30, 11, 2026),
              DateText(1, 12, 2026), DateText(31, 11, 2026)}

Todays == {<<30, 11, 2026>>}

Entries == {BinCollectionData(<<Tok.DAYNAME>>, dt, bt) : dt \in DateTexts, bt \in BinTypes}

RECURSIVE SeqsUpTo(_, _)
SeqsUpTo(S, n) ==
    IF n = 0 THEN {<<>>}
    ELSE LET shorter == SeqsUpTo(S, n - 1) IN
         shorter \cup {Append(q, x) : q \in {r \in shorter : Len(r) = n - 1}, x \in S}

Schedules == SeqsUpTo(Entries, MaxLen)

NoResponse == [frags |-> <<>>, width |-> 1]
NoAddress == [addressLine1 |-> NoText, postalCode |-> NoText]

-----------------------------------------------------------------------------
(* SpecSchedule: the resolver and the freshness evaluator applied to every
   schedule (in any order) and every today *)

InitSchedule ==
    /\ pc = "idle"
    /\ now \in Todays
    /\ propertyData \in {PropertyData(<<1>>, <<2>>, sch) : sch \in Schedules}
    /\ nextCollectionData = <<>>
    /\ stale = FALSE
    /\ response = NoResponse
    /\ lastIndex = 0
    /\ matches = <<>>
    /\ parsed = <<>>
    /\ error = "none"
    /\ address = NoAddress
    /\ table = {}
    /\ calls = <<>>
    /\ speech = NULL
    /\ consentToken = FALSE
    /\ shortAddress = NULL
    /\ data = NULL
    /\ uprn = NoText
    /\ binTypeArg = <<>>
    /\ binTypeResult = "none"
    /\ refreshCalls = 0
    /\ refresh = "none"
    /\ previousResult = <<>>
    /\ match = <<>>
    /\ cursor = 0
    /\ filtered = <<>>

CallFindNext ==
    /\ pc = "idle"
    /\ nextCollectionData' = findNextBinCollectionData(propertyData, now)
    /\ pc' = "resolved"
    /\ UNCHANGED <<now, propertyData, stale, response, lastIndex, matches, parsed,
                   error, requestVars, binTypeVars, resolverVars, loopVars>>

CallIsStale ==
    /\ pc = "idle"
    /\ stale' = isBinDataStale(propertyData.binCollectionData, now)
    /\ pc' = "staleChecked"
    /\ UNCHANGED <<now, propertyData, nextCollectionData, response, lastIndex,
                   matches, parsed, error, requestVars, binTypeVars, resolverVars,
                   loopVars>>

NextSchedule == CallFindNext \/ CallIsStale

SpecSchedule == InitSchedule /\ [][NextSchedule]_vars

-----------------------------------------------------------------------------
(* Inputs of the parser *)

MaxFragments == 33  \* most matches in a response body (the code stops at 30)
MaxWidth == 2       \* longest match, in characters

\* the descriptions the upstream site sends, and one it does not
Descriptions == << <<Tok.ES, Tok.GW>>, <<Tok.ES, Tok.MR>>, <<Tok.ES, Tok.GEN>> >>

\* the k-th match of a response body: day label, date, description in turn; the
\* variant v rotates the descriptions
FragmentText(k, v) ==
    LET t == (k - 1) \div 3
        pos == (k - 1) % 3
    IN  IF pos = 0 THEN <<Tok.DAYNAME>>
        ELSE IF pos = 1 THEN DateText(1 + (t % 28), 12, 2026)
        ELSE Descriptions[((t + v) % Len(Descriptions)) + 1]

ResponseBody(n, w, v) == [frags |-> [k \in 1..n |-> FragmentText(k, v)], width |-> w]

Responses ==
    {ResponseBody(n, w, v) : n \in 0..MaxFragments, w \in 1..MaxWidth,
                             v \in 1..Len(Descriptions)}

-----------------------------------------------------------------------------
(* SpecParser: parseBinResponse called again and again in one process, on any
   response body; the pattern object and its lastIndex live as long as the
   process *)

InitParser ==
    /\ pc = "idle"
    /\ now = <<30, 11, 2026>>
    /\ propertyData = NULL
    /\ nextCollectionData = <<>>
    /\ stale = FALSE
    /\ response \in Responses
    /\ lastIndex = 0
    /\ matches = <<>>
    /\ parsed = <<>>
    /\ error = "none"
    /\ address = NoAddress
    /\ table = {}
    /\ calls = <<>>
    /\ speech = NULL
    /\ consentToken = FALSE
    /\ shortAddress = NULL
    /\ data = NULL
    /\ uprn = NoText
    /\ binTypeArg = <<>>
    /\ binTypeResult = "none"
    /\ refreshCalls = 0
    /\ refresh = "none"
    /\ previousResult = <<>>
    /\ match = <<>>
    /\ cursor = 0
    /\ filtered = <<>>

CallParseBinResponse ==
    /\ pc = "idle"
    /\ LET r == parseBinResponse(response, lastIndex) IN
       /\ matches' = r.matches
       /\ lastIndex' = r.lastIndex
       /\ parsed' = r.value
       /\ error' = IF r.threw THEN "BinCollectionException" ELSE "none"
       /\ pc' = IF r.threw THEN "threw" ELSE "parsed"
    /\ UNCHANGED <<now, propertyData, nextCollectionData, stale, response,
                   requestVars, binTypeVars, resolverVars, loopVars>>

NextResponse ==
    /\ pc \in {"parsed", "threw"}
    /\ response' \in Responses
    /\ pc' = "idle"
    /\ matches' = <<>>
    /\ parsed' = <<>>
    /\ error' = "none"
    /\ UNCHANGED <<now, propertyData, nextCollectionData, stale, lastIndex,
                   requestVars, binTypeVars, resolverVars, loopVars>>

NextParser == CallParseBinResponse \/ NextResponse

SpecParser == InitParser /\ [][NextParser]_vars

-----------------------------------------------------------------------------
(* SpecBinType: parseBinType applied to every description of up to
   MaxDescLen chunks *)

MaxDescLen == 3

DescriptionChunks == {Tok.ES, Tok.GW, Tok.MR, Tok.GEN, Tok.GWL}

BinTypeStrings == SeqsUpTo(DescriptionChunks, MaxDescLen)

InitBinType ==
    /\ pc = "idle"
    /\ now = <<30, 11, 2026>>
    /\ propertyData = NULL
    /\ nextCollectionData = <<>>
    /\ stale = FALSE
    /\ response = NoResponse
    /\ lastIndex = 0
    /\ matches = <<>>
    /\ parsed = <<>>
    /\ error = "none"
    /\ address = NoAddress
    /\ table = {}
    /\ calls = <<>>
    /\ speech = NULL
    /\ consentToken = FALSE
    /\ shortAddress = NULL
    /\ data = NULL
    /\ uprn = NoText
    /\ binTypeArg \in BinTypeStrings
    /\ binTypeResult = "none"
    /\ refreshCalls = 0
    /\ refresh = "none"
    /\ previousResult = <<>>
    /\ match = <<>>
    /\ cursor = 0
    /\ filtered = <<>>

CallParseBinType ==
    /\ pc = "idle"
    /\ binTypeResult' = parseBinType(binTypeArg)
    /\ pc' = "typed"
    /\ UNCHANGED <<now, propertyData, nextCollectionData, stale, response, lastIndex,
                   matches, parsed, error, requestVars, binTypeArg, resolverVars,
                   loopVars>>

NextBinType == CallParseBinType

SpecBinType == InitBinType /\ [][NextBinType]_vars

-----------------------------------------------------------------------------
(* Spec: launch requests handled one after another by one process
   (LaunchRequestHandler.handle), against one table and one upstream site *)

\* device addresses: "a 1", "A 1", "b" or none; postal codes "s", "S" or none
AddressLines == {<<97, 32, 49>>, <<65, 32, 49>>, <<98>>}
PostalCodes == {<<115>>, <<83>>}
Addresses ==
    {[addressLine1 |-> a, postalCode |-> c] :
        a \in AddressLines \cup {NoText}, c \in PostalCodes \cup {NoText}}

\* the property ids the upstream lookup answers with
PropertyIds == {<<49>>, <<50>>}

\* how dynamoDB.get ends
GetOutcomes == {"item", "clientError", "unreadable"}

\* the schedule bodies the upstream site answers with: no match, the 3 trailing
\* matches alone, 1 and 4 entries, and more matches than the parser reads
FetchedFragmentCounts == {0, 3, 6, 15, MaxFragments}
FetchedResponses == {ResponseBody(n, 1, 1) : n \in FetchedFragmentCounts}

RequestTodays == {<<30, 11, 2026>>, <<15, 12, 2026>>}

Init ==
    /\ pc = "start"
    /\ now \in RequestTodays
    /\ propertyData = NULL
    /\ nextCollectionData = <<>>
    /\ stale = FALSE
    /\ response = NoResponse
    /\ lastIndex = 0
    /\ matches = <<>>
    /\ parsed = <<>>
    /\ error = "none"
    /\ address \in Addresses
    /\ table = {}
    /\ calls = <<>>
    /\ speech = NULL
    /\ consentToken \in BOOLEAN
    /\ shortAddress = NULL
    /\ data = NULL
    /\ uprn = NoText
    /\ binTypeArg = <<>>
    /\ binTypeResult = "none"
    /\ refreshCalls = 0
    /\ refresh = "none"
    /\ previousResult = <<>>
    /\ match = <<>>
    /\ cursor = 0
    /\ filtered = <<>>

\* handle: the consent check
Handle ==
    /\ pc = "start"
    /\ IF ~consentToken
       THEN /\ speech' = [permissionsCard |-> "No Permissions found"]
            /\ pc' = "done"
       ELSE /\ speech' = speech
            /\ pc' = "findDeviceAddress"
    /\ UNCHANGED <<now, propertyData, nextCollectionData, stale, response, lastIndex,
                   matches, parsed, error, address, table, calls, consentToken,
                   shortAddress, data, uprn, binTypeVars, resolverVars, loopVars>>

\* findDeviceAddress: an incomplete address throws a plain Error with the very
\* message of createBinCollectionException
FindDeviceAddress ==
    /\ pc = "findDeviceAddress"
    /\ LET r == findDeviceAddress(address) IN
       IF r.threw
       THEN /\ error' = "AddressIncomplete"
            /\ pc' = "failed"
            /\ shortAddress' = shortAddress
       ELSE /\ shortAddress' = r.value
            /\ pc' = "obtainPropertyData"
            /\ error' = error
    /\ UNCHANGED <<now, propertyData, nextCollectionData, stale, response, lastIndex,
                   matches, parsed, address, table, calls, speech, consentToken,
                   data, uprn, binTypeVars, resolverVars, loopVars>>

\* obtainPropertyData, up to the cache lookup: the get fails in the client,
\* answers with the item under the key (or none), or answers with an item whose
\* binCollectionData is not JSON
ObtainFromDatabase ==
    /\ pc = "obtainPropertyData"
    /\ \E outcome \in GetOutcomes :
        LET urlEncodedAddressLine1 == encodeURIComponent(shortAddress.addressLine1)
            key == daoKey(urlEncodedAddressLine1, shortAddress.postCode)
            got == IF outcome = "clientError" THEN NULL
                   ELSE IF outcome = "unreadable"
                   THEN [Item |-> [addressLine1 |-> key,
                                   binCollectionData |-> NotJSON,
                                   propertyId |-> <<49>>]]
                   ELSE dynamoGet(table, key)
            r == obtainFromDatabase(urlEncodedAddressLine1, got, now)
        IN  /\ data' = IF got = NULL THEN NULL ELSE got.Item
            /\ stale' = IF got # NULL /\ got.Item # NULL
                           /\ JSONreadable(got.Item.binCollectionData)
                        THEN isBinDataStale(JSONparse(got.Item.binCollectionData), now)
                        ELSE stale
            /\ calls' = Append(calls, [op |-> "get", key |-> key,
                                       ok |-> outcome # "clientError"])
            /\ propertyData' = r.value
            /\ error' = IF r.threw THEN "TypeError" ELSE error
            /\ pc' = IF r.threw THEN "failed"
                     ELSE IF r.value = NULL THEN "getPropertyId" ELSE "buildBinString"
    /\ UNCHANGED <<now, nextCollectionData, response, lastIndex, matches, parsed,
                   address, table, speech, consentToken, shortAddress, uprn,
                   binTypeVars, resolverVars, loopVars>>

\* the bodies the upstream site answers the property lookup with, as the
\* sequence of their chunks: a data-uprn attribute is the text of its digits,
\* any other markup a chunk code
PropertyIdBodies ==
    {<<>>, << <<Tok.GEN>> >>} \cup
    {<< <<Tok.GEN>>, id >> : id \in PropertyIds} \cup
    {<<id, other>> : id \in PropertyIds, other \in PropertyIds}

\* PROPERTY_ID_PATTERN.exec(serviceResponse): group 1 of the first data-uprn
\* attribute, <<>> when the body has none
propertyIdMatch(serviceResponse) ==
    LET hits == SelectSeq(serviceResponse, LAMBDA chunk : chunk[1] >= 0) IN
    IF hits = <<>> THEN <<>> ELSE hits[1]

\* a variant that returns a null property id when the body has no data-uprn
propertyIdOrNull(serviceResponse) ==
    IF propertyIdMatch(serviceResponse) = <<>>
    THEN [threw |-> FALSE, value |-> NoText]
    ELSE [threw |-> FALSE, value |-> propertyIdMatch(serviceResponse)]

\* getPropertyIdFromWebservice after its request, lines 42-54: threw is the
\* bin-collection error thrown when the pattern does not match
propertyIdOf(serviceResponse) ==
    IF propertyIdMatch(serviceResponse) = <<>>
    THEN [threw |-> TRUE, value |-> NoText]
    ELSE [threw |-> FALSE, value |-> propertyIdMatch(serviceResponse)]

\* getPropertyIdFromWebservice: the request fails (network error, status other
\* than 200: the promise rejects), the body holds no data-uprn, or it holds one
GetPropertyIdFromWebservice ==
    /\ pc = "getPropertyId"
    /\ \/ /\ error' = "RequestError"
          /\ pc' = "failed"
          /\ uprn' = uprn
          /\ calls' = Append(calls, [op |-> "lookup", key |-> shortAddress.postCode,
                                     ok |-> FALSE])
       \/ \E serviceResponse \in PropertyIdBodies :
            LET r == propertyIdOf(serviceResponse) IN
            /\ calls' = Append(calls, [op |-> "lookup", key |-> shortAddress.postCode,
                                       ok |-> TRUE])
            /\ uprn' = r.value
            /\ IF r.threw
               THEN /\ error' = "BinCollectionException"
                    /\ pc' = "failed"
               ELSE /\ pc' = "getBinData"
                    /\ error' = error
    /\ UNCHANGED <<now, propertyData, nextCollectionData, stale, response, lastIndex,
                   matches, parsed, address, table, speech, consentToken,
                   shortAddress, data, binTypeVars, resolverVars, loopVars>>

\* getBinDataFromWebService and the rest of getPropertyDataFromWebservice: the
\* request fails, or its body is parsed and the PropertyData built
GetBinDataFromWebService ==
    /\ pc = "getBinData"
    /\ \/ /\ error' = "RequestError"
          /\ pc' = "failed"
          /\ calls' = Append(calls, [op |-> "fetch", key |-> uprn, ok |-> FALSE])
          /\ UNCHANGED <<response, lastIndex, matches, parsed, propertyData>>
       \/ \E body \in FetchedResponses :
            LET r == parseBinResponse(body, lastIndex) IN
            /\ calls' = Append(calls, [op |-> "fetch", key |-> uprn, ok |-> TRUE])
            /\ response' = body
            /\ lastIndex' = r.lastIndex
            /\ matches' = r.matches
            /\ parsed' = r.value
            /\ IF r.threw
               THEN /\ error' = "BinCollectionException"
                    /\ pc' = "failed"
                    /\ propertyData' = propertyData
               ELSE /\ propertyData' =
                          PropertyData(daoKey(encodeURIComponent(shortAddress.addressLine1),
                                              shortAddress.postCode),
                                       uprn, r.value)
                    /\ pc' = "putPropertyData"
                    /\ error' = error
    /\ UNCHANGED <<now, nextCollectionData, stale, address, table, speech,
                   consentToken, shortAddress, data, uprn, binTypeVars, resolverVars,
                   loopVars>>

\* putPropertyDataInDatabase: a failure of the put is logged and swallowed
PutPropertyDataInDatabase ==
    /\ pc = "putPropertyData"
    /\ \/ /\ table' = dynamoPut(table, putItem(propertyData))
          /\ calls' = Append(calls, [op |-> "put", key |-> propertyData.addressLine1,
                                     ok |-> TRUE])
       \/ /\ table' = table
          /\ calls' = Append(calls, [op |-> "put", key |-> propertyData.addressLine1,
                                     ok |-> FALSE])
    /\ pc' = "buildBinString"
    /\ UNCHANGED <<now, propertyData, nextCollectionData, stale, response, lastIndex,
                   matches, parsed, error, address, speech, consentToken,
                   shortAddress, data, uprn, binTypeVars, resolverVars, loopVars>>

\* buildBinString and the response of handle
BuildBinString ==
    /\ pc = "buildBinString"
    /\ nextCollectionData' = findNextBinCollectionData(propertyData, now)
    /\ LET r == buildBinString(propertyData, now) IN
       IF r.threw
       THEN /\ error' = "TypeError"
            /\ pc' = "failed"
            /\ speech' = speech
       ELSE /\ speech' = r.value
            /\ pc' = "done"
            /\ error' = error
    /\ UNCHANGED <<now, propertyData, stale, response, lastIndex, matches, parsed,
                   address, table, calls, consentToken, shortAddress, data, uprn,
                   binTypeVars, resolverVars, loopVars>>

\* the next launch request: same process (the pattern's lastIndex stays), same
\* table, same day
NewRequest ==
    /\ pc \in {"done", "failed"}
    /\ pc' = "start"
    /\ address' \in Addresses
    /\ consentToken' \in BOOLEAN
    /\ propertyData' = NULL
    /\ nextCollectionData' = <<>>
    /\ stale' = FALSE
    /\ response' = NoResponse
    /\ matches' = <<>>
    /\ parsed' = <<>>
    /\ error' = "none"
    /\ calls' = <<>>
    /\ speech' = NULL
    /\ shortAddress' = NULL
    /\ data' = NULL
    /\ uprn' = NoText
    /\ UNCHANGED <<now, lastIndex, table, binTypeVars, resolverVars, loopVars>>

Next ==
    \/ Handle
    \/ FindDeviceAddress
    \/ ObtainFromDatabase
    \/ GetPropertyIdFromWebservice
    \/ GetBinDataFromWebService
    \/ PutPropertyDataInDatabase
    \/ BuildBinString
    \/ NewRequest

Spec == Init /\ [][Next]_vars

-----------------------------------------------------------------------------
(* The resolver that refreshes the stored schedule in the background
   (LaunchRequestHandler.ts lines 184-242), and the handler code around it *)

RefreshThreshold == 3

RECURSIVE scanNextStoppingAtRefresh(_, _, _, _, _, _, _)
\* a variant that leaves the loop once it has called refreshBinData
scanNextStoppingAtRefresh(items, i, today, next, counter, refreshed, refreshes) ==
    IF i > Len(items) THEN [next |-> next, refreshes |-> refreshes]
    ELSE LET item == items[i] IN
        IF isSameOrAfter(momentParse(item.collectionDate, today), momentNow(today))
        THEN IF Len(items) - counter <= RefreshThreshold /\ ~refreshed
             THEN [next |-> next, refreshes |-> refreshes + 1]
             ELSE IF Len(next) = 1
                  THEN IF matchesExistingDate(next[1].collectionDate,
                                              item.collectionDate, today)
                       THEN [next |-> Append(next, item), refreshes |-> refreshes]
                       ELSE [next |-> next, refreshes |-> refreshes]
                  ELSE IF item.binType = "Black"
                       THEN [next |-> Append(next, item), refreshes |-> refreshes]
                       ELSE scanNextStoppingAtRefresh(items, i + 1, today,
                                Append(next, item), counter + 1, refreshed, refreshes)
        ELSE scanNextStoppingAtRefresh(items, i + 1, today, next, counter, refreshed,
                                       refreshes)

RECURSIVE scanNextRefreshingUnflagged(_, _, _, _, _, _, _)
\* a variant that does not look at the refreshed flag
scanNextRefreshingUnflagged(items, i, today, next, counter, refreshed, refreshes) ==
    IF i > Len(items) THEN [next |-> next, refreshes |-> refreshes]
    ELSE LET item == items[i] IN
        IF isSameOrAfter(momentParse(item.collectionDate, today), momentNow(today))
        THEN LET refreshNow == Len(items) - counter <= RefreshThreshold
                 made == IF refreshNow THEN refreshes + 1 ELSE refreshes
             IN  IF Len(next) = 1
                 THEN IF matchesExistingDate(next[1].collectionDate,
                                             item.collectionDate, today)
                      THEN [next |-> Append(next, item), refreshes |-> made]
                      ELSE [next |-> next, refreshes |-> made]
                 ELSE IF item.binType = "Black"
                      THEN [next |-> Append(next, item), refreshes |-> made]
                      ELSE scanNextRefreshingUnflagged(items, i + 1, today,
                               Append(next, item), counter + 1, refreshed, made)
        ELSE scanNextRefreshingUnflagged(items, i + 1, today, next, counter,
                                         refreshed, refreshes)

RECURSIVE scanNextRefreshing(_, _, _, _, _, _, _)
\* the for-loop from item i on: the result so far, the locals counter and
\* refreshed, and the number of refreshBinData calls made
scanNextRefreshing(items, i, today, next, counter, refreshed, refreshes) ==
    IF i > Len(items) THEN [next |-> next, refreshes |-> refreshes]
    ELSE LET item == items[i] IN
        IF isSameOrAfter(momentParse(item.collectionDate, today), momentNow(today))
        THEN LET refreshNow == Len(items) - counter <= RefreshThreshold /\ ~refreshed
                 made == IF refreshNow THEN refreshes + 1 ELSE refreshes
             IN  IF Len(next) = 1
                 THEN IF matchesExistingDate(next[1].collectionDate,
                                             item.collectionDate, today)
                      THEN [next |-> Append(next, item), refreshes |-> made]
                      ELSE [next |-> next, refreshes |-> made]
                 ELSE IF item.binType = "Black"
                      THEN [next |-> Append(next, item), refreshes |-> made]
                      ELSE scanNextRefreshing(items, i + 1, today, Append(next, item),
                                              counter + 1, refreshed \/ refreshNow, made)
        ELSE scanNextRefreshing(items, i + 1, today, next, counter, refreshed, refreshes)

\* a variant whose result array outlives the call (declared outside the function)
findNextIntoSharedArray(pd, today) ==
    scanNextRefreshing(pd.binCollectionData, 1, today, nextCollectionData, 1, FALSE, 0)

\* findNextBinCollectionData of lines 184-233: an empty result is returned as it
\* is (the exception made at line 229 is not thrown)
findNextBinCollectionDataRefreshing(pd, today) ==
    scanNextRefreshing(pd.binCollectionData, 1, today, <<>>, 1, FALSE, 0)

\* buildBinString after its resolver call (lines 93-103): threw is the TypeError
\* of reading binCollectionData[0].binType of an empty result
binStringOf(binCollectionData, today) ==
    IF Len(binCollectionData) = 2
    THEN [threw |-> FALSE,
          value |-> [binType |-> <<binCollectionData[1].binType, "and",
                                   binCollectionData[2].binType>>,
                     due |-> findCollectionDay(binCollectionData[1], today)]]
    ELSE IF Len(binCollectionData) = 0
    THEN [threw |-> TRUE, value |-> NULL]
    ELSE [threw |-> FALSE,
          value |-> [binType |-> <<binCollectionData[1].binType>>,
                     due |-> findCollectionDay(binCollectionData[1], today)]]

-----------------------------------------------------------------------------
(* SpecRefresh: one schedule in hand, read from its stored record; the resolver
   is called on it, the answer is built and sent, and the refreshBinData task the
   resolver left behind runs when the handler's synchronous code has ended *)

MaxRefreshLen == 5

RefreshBinTypes == {"Black", "Green"}
RefreshDateTexts == {DateText(29, 11, 2026), DateText(30, 11, 2026), DateText(1, 12, 2026)}
RefreshEntries ==
    {BinCollectionData(<<Tok.DAYNAME>>, dt, bt) :
        dt \in RefreshDateTexts, bt \in RefreshBinTypes}
RefreshSchedules == SeqsUpTo(RefreshEntries, MaxRefreshLen)

\* what the upstream site answers to the refresh: no match, or one entry
RefreshFragmentCounts == {0, 6}
RefreshResponses == {ResponseBody(n, 1, 1) : n \in RefreshFragmentCounts}

InitRefresh ==
    /\ pc = "idle"
    /\ now \in Todays
    /\ propertyData \in {PropertyData(<<1>>, <<2>>, sch) : sch \in RefreshSchedules}
    /\ nextCollectionData = <<>>
    /\ stale = FALSE
    /\ response = NoResponse
    /\ lastIndex = 0
    /\ matches = <<>>
    /\ parsed = <<>>
    /\ error = "none"
    /\ address = NoAddress
    /\ table = {putItem(propertyData)}
    /\ calls = <<>>
    /\ speech = NULL
    /\ consentToken = TRUE
    /\ shortAddress = NULL
    /\ data = putItem(propertyData)
    /\ uprn = NoText
    /\ binTypeArg = <<>>
    /\ binTypeResult = "none"
    /\ refreshCalls = 0
    /\ refresh = "none"
    /\ previousResult = <<>>
    /\ match = <<>>
    /\ cursor = 0
    /\ filtered = <<>>

\* findNextBinCollectionData (lines 184-233) called by buildBinString; the
\* refreshBinData call returns its promise at once
CallFindNextRefreshing ==
    /\ pc = "idle"
    /\ LET r == findNextBinCollectionDataRefreshing(propertyData, now) IN
       /\ nextCollectionData' = r.next
       /\ refreshCalls' = r.refreshes
       /\ refresh' = IF r.refreshes > 0 THEN "dispatched" ELSE "none"
    /\ pc' = "resolvedRefreshing"
    /\ UNCHANGED <<now, propertyData, stale, response, lastIndex, matches, parsed,
                   error, requestVars, binTypeVars, previousResult, loopVars>>

\* the same resolver called a second time on the same schedule, the same day
CallFindNextRefreshingAgain ==
    /\ pc = "resolvedRefreshing"
    /\ previousResult' = nextCollectionData
    /\ LET r == findNextBinCollectionDataRefreshing(propertyData, now) IN
       /\ nextCollectionData' = r.next
       /\ refreshCalls' = r.refreshes
    /\ pc' = "resolvedRefreshingAgain"
    /\ UNCHANGED <<now, propertyData, stale, response, lastIndex, matches, parsed,
                   error, requestVars, binTypeVars, refresh, loopVars>>

\* findNextBinCollectionData of lines 368-410 called a second time
CallFindNextAgain ==
    /\ pc = "resolved"
    /\ previousResult' = nextCollectionData
    /\ nextCollectionData' = findNextBinCollectionData(propertyData, now)
    /\ pc' = "resolvedAgain"
    /\ UNCHANGED <<now, propertyData, stale, response, lastIndex, matches, parsed,
                   error, requestVars, binTypeVars, refreshCalls, refresh, loopVars>>

\* the rest of buildBinString and the return of handle, in the same run of
\* synchronous code as the resolver call
BuildBinStringRefreshing ==
    /\ pc = "resolvedRefreshing"
    /\ LET r == binStringOf(nextCollectionData, now) IN
       IF r.threw
       THEN /\ error' = "TypeError"
            /\ pc' = "failed"
            /\ speech' = speech
       ELSE /\ speech' = r.value
            /\ pc' = "answered"
            /\ error' = error
    /\ UNCHANGED <<now, propertyData, nextCollectionData, stale, response, lastIndex,
                   matches, parsed, address, table, calls, consentToken,
                   shortAddress, data, uprn, binTypeVars, resolverVars, loopVars>>

\* the response leaves the process
SendResponse ==
    /\ pc = "answered"
    /\ pc' = "sent"
    /\ UNCHANGED <<now, propertyData, nextCollectionData, stale, response, lastIndex,
                   matches, parsed, error, requestVars, binTypeVars, resolverVars,
                   loopVars>>

\* refreshBinData, line 240: the awaited getBinDataFromWebService settles; a
\* transport failure or a parse failure rejects the task's promise
RefreshGetBinData ==
    /\ refresh = "dispatched"
    /\ pc \in {"answered", "sent", "failed"}
    /\ \/ /\ refresh' = "rejected"
          /\ calls' = Append(calls, [op |-> "fetch", key |-> propertyData.propertyId,
                                     ok |-> FALSE])
          /\ UNCHANGED <<response, lastIndex, matches, parsed>>
       \/ \E body \in RefreshResponses :
            LET r == parseBinResponse(body, lastIndex) IN
            /\ calls' = Append(calls, [op |-> "fetch", key |-> propertyData.propertyId,
                                       ok |-> TRUE])
            /\ response' = body
            /\ lastIndex' = r.lastIndex
            /\ matches' = r.matches
            /\ parsed' = r.value
            /\ refresh' = IF r.threw THEN "rejected" ELSE "fetched"
    /\ UNCHANGED <<pc, now, propertyData, nextCollectionData, stale, error, address,
                   table, speech, consentToken, shortAddress, data, uprn,
                   binTypeVars, refreshCalls, previousResult, loopVars>>

\* refreshBinData, line 241: putPropertyDataInDatabase of a new PropertyData; a
\* failure of the put is logged and swallowed
RefreshPutPropertyData ==
    /\ refresh = "fetched"
    /\ \/ /\ table' = dynamoPut(table, putItem(PropertyData(propertyData.addressLine1,
                                                           propertyData.propertyId,
                                                           parsed)))
          /\ calls' = Append(calls, [op |-> "put", key |-> propertyData.addressLine1,
                                     ok |-> TRUE])
       \/ /\ table' = table
          /\ calls' = Append(calls, [op |-> "put", key |-> propertyData.addressLine1,
                                     ok |-> FALSE])
    /\ refresh' = "stored"
    /\ UNCHANGED <<pc, now, propertyData, nextCollectionData, stale, response,
                   lastIndex, matches, parsed, error, address, speech, consentToken,
                   shortAddress, data, uprn, binTypeVars, refreshCalls,
                   previousResult, loopVars>>

NextRefresh ==
    \/ CallFindNextRefreshing
    \/ CallFindNextRefreshingAgain
    \/ CallFindNext
    \/ CallFindNextAgain
    \/ BuildBinStringRefreshing
    \/ SendResponse
    \/ RefreshGetBinData
    \/ RefreshPutPropertyData

SpecRefresh == InitRefresh /\ [][NextRefresh]_vars

-----------------------------------------------------------------------------
(* SpecDates: the resolver and the freshness check on schedules whose date
   texts are not all of the form DD/MM/YYYY *)

MaxDatedLen == 3

\* 29/11/2026, 30/11/2026, the invalid 31/11/2026, "30" and "1-12-2026"
LooseDateTexts ==
    {DateText(29, 11, 2026), DateText(30, 11, 2026), DateText(31, 11, 2026),
     <<30>>, <<1, Tok.DASH, 12, Tok.DASH, 2026>>}

DatedEntries ==
    {BinCollectionData(<<Tok.DAYNAME>>, dt, bt) :
        dt \in LooseDateTexts, bt \in RefreshBinTypes}

DatedSchedules == SeqsUpTo(DatedEntries, MaxDatedLen)

InitDates ==
    /\ pc = "idle"
    /\ now \in Todays
    /\ propertyData \in {PropertyData(<<1>>, <<2>>, sch) : sch \in DatedSchedules}
    /\ nextCollectionData = <<>>
    /\ stale = FALSE
    /\ response = NoResponse
    /\ lastIndex = 0
    /\ matches = <<>>
    /\ parsed = <<>>
    /\ error = "none"
    /\ address = NoAddress
    /\ table = {}
    /\ calls = <<>>
    /\ speech = NULL
    /\ consentToken = FALSE
    /\ shortAddress = NULL
    /\ data = NULL
    /\ uprn = NoText
    /\ binTypeArg = <<>>
    /\ binTypeResult = "none"
    /\ refreshCalls = 0
    /\ refresh = "none"
    /\ previousResult = <<>>
    /\ match = <<>>
    /\ cursor = 0
    /\ filtered = <<>>

SpecDates == InitDates /\ [][NextSchedule]_vars

-----------------------------------------------------------------------------
(* SpecSteps: one call of parseBinResponse (the latest and the older one), of
   findNextBinCollectionData or of isBinDataStale, run one loop iteration at a
   time *)

MaxStepLen == 3

StepSchedules == SeqsUpTo(RefreshEntries, MaxStepLen)

\* the pattern's lastIndex when the call starts: 0, or what a parse of a body
\* with more than MaxMatches matches of one character has left behind
StepLastIndexes == {0, MaxMatches + 1}

\* the older parser's loop is followed for at most this many pushes
MaxOldMatches == MaxFragments

RECURSIVE inputText(_, _)
\* RegExpExecArray.input: the text the pattern was run on, from match k on
inputText(resp, k) ==
    IF k > Len(resp.frags) THEN <<>>
    ELSE resp.frags[k] \o inputText(resp, k + 1)

InitSteps ==
    /\ pc = "idle"
    /\ now = <<30, 11, 2026>>
    /\ \/ /\ response \in Responses
          /\ lastIndex \in StepLastIndexes
          /\ propertyData = PropertyData(<<1>>, <<2>>, <<>>)
       \/ /\ response = NoResponse
          /\ lastIndex = 0
          /\ propertyData \in {PropertyData(<<1>>, <<2>>, sch) : sch \in StepSchedules}
    /\ nextCollectionData = <<>>
    /\ stale = FALSE
    /\ matches = <<>>
    /\ parsed = <<>>
    /\ error = "none"
    /\ address = NoAddress
    /\ table = {}
    /\ calls = <<>>
    /\ speech = NULL
    /\ consentToken = FALSE
    /\ shortAddress = NULL
    /\ data = NULL
    /\ uprn = NoText
    /\ binTypeArg = <<>>
    /\ binTypeResult = "none"
    /\ refreshCalls = 0
    /\ refresh = "none"
    /\ previousResult = <<>>
    /\ match = <<>>
    /\ cursor = 0
    /\ filtered = <<>>

\* parseBinResponse, lines 86-90: the first exec, counter = 0 (the counter is
\* the length of matches throughout)
ParseStart ==
    /\ pc = "idle"
    /\ LET r == regexExec(response, lastIndex) IN
        /\ match' = r.match
        /\ lastIndex' = r.lastIndex
    /\ matches' = <<>>
    /\ pc' = "extract"
    /\ UNCHANGED <<now, propertyData, nextCollectionData, stale, response, parsed,
                   error, requestVars, binTypeVars, resolverVars, cursor, filtered>>

\* one iteration of `while (match !== null && counter < 30)`
ExtractStep ==
    /\ pc = "extract"
    /\ match # <<>>
    /\ Len(matches) < MaxMatches
    /\ matches' = Append(matches, match[1])
    /\ LET r == regexExec(response, lastIndex) IN
        /\ match' = r.match
        /\ lastIndex' = r.lastIndex
    /\ UNCHANGED <<pc, now, propertyData, nextCollectionData, stale, response, parsed,
                   error, requestVars, binTypeVars, resolverVars, cursor, filtered>>

\* the loop condition is false: the emptiness check, then i = 0
ExtractEnd ==
    /\ pc = "extract"
    /\ ~(match # <<>> /\ Len(matches) < MaxMatches)
    /\ IF Len(matches) = 0
       THEN /\ pc' = "threw"
            /\ error' = "BinCollectionException"
       ELSE /\ pc' = "group"
            /\ error' = error
    /\ cursor' = 0
    /\ parsed' = <<>>
    /\ UNCHANGED <<now, propertyData, nextCollectionData, stale, response, lastIndex,
                   matches, requestVars, binTypeVars, resolverVars, match, filtered>>

\* one iteration of `while (i < (matches.length - 3))`
GroupStep ==
    /\ pc = "group"
    /\ cursor < Len(matches) - DuffMatches
    /\ parsed' = Append(parsed, BinCollectionData(matches[cursor + 1], matches[cursor + 2],
                                                  parseBinType(matches[cursor + 3])))
    /\ cursor' = cursor + 3
    /\ UNCHANGED <<pc, now, propertyData, nextCollectionData, stale, response, lastIndex,
                   matches, error, requestVars, binTypeVars, resolverVars, match,
                   filtered>>

GroupEnd ==
    /\ pc = "group"
    /\ ~(cursor < Len(matches) - DuffMatches)
    /\ pc' = "parsed"
    /\ UNCHANGED <<now, propertyData, nextCollectionData, stale, response, lastIndex,
                   matches, parsed, error, requestVars, binTypeVars, resolverVars,
                   loopVars>>

\* the older parseBinResponse, line 80
OldParseStart ==
    /\ pc = "idle"
    /\ matches' = <<>>
    /\ pc' = "extractOld"
    /\ UNCHANGED <<now, propertyData, nextCollectionData, stale, response, lastIndex,
                   parsed, error, requestVars, binTypeVars, resolverVars, loopVars>>

\* one evaluation of `while (PATTERN.test(response))` and of the body
\* `matches.push(PATTERN.exec(response).input)`: test and exec each move the
\* pattern's lastIndex on; exec returning null makes `.input` a TypeError
OldExtractStep ==
    /\ pc = "extractOld"
    /\ Len(matches) < MaxOldMatches
    /\ LET tested == regexExec(response, lastIndex)
           r == regexExec(response, tested.lastIndex)
       IN  IF tested.match = <<>>
           THEN /\ lastIndex' = tested.lastIndex
                /\ matches' = matches
                /\ match' = match
                /\ IF Len(matches) = 0
                   THEN /\ pc' = "threw"
                        /\ error' = "BinCollectionException"
                   ELSE /\ pc' = "groupOld"
                        /\ error' = error
           ELSE /\ lastIndex' = r.lastIndex
                /\ match' = r.match
                /\ IF r.match = <<>>
                   THEN /\ pc' = "threw"
                        /\ error' = "TypeError"
                        /\ matches' = matches
                   ELSE /\ pc' = pc
                        /\ error' = error
                        /\ matches' = Append(matches, inputText(response, 1))
    /\ cursor' = 0
    /\ parsed' = <<>>
    /\ UNCHANGED <<now, propertyData, nextCollectionData, stale, response,
                   requestVars, binTypeVars, resolverVars, filtered>>

\* one evaluation of `while (i < matches.length)` and of its body, which reads
\* matches[i++] three times; past the end that is undefined, and
\* parseBinType(undefined) is a TypeError
OldGroupStep ==
    /\ pc = "groupOld"
    /\ IF cursor < Len(matches)
       THEN IF cursor + 3 <= Len(matches)
            THEN /\ parsed' = Append(parsed,
                        BinCollectionData(matches[cursor + 1], matches[cursor + 2],
                                          parseBinType(matches[cursor + 3])))
                 /\ cursor' = cursor + 3
                 /\ pc' = pc
                 /\ error' = error
            ELSE /\ pc' = "threw"
                 /\ error' = "TypeError"
                 /\ UNCHANGED <<parsed, cursor>>
       ELSE /\ pc' = "parsed"
            /\ UNCHANGED <<parsed, cursor, error>>
    /\ UNCHANGED <<now, propertyData, nextCollectionData, stale, response, lastIndex,
                   matches, requestVars, binTypeVars, resolverVars, match, filtered>>

\* findNextBinCollectionData, lines 369-374
ScanStart ==
    /\ pc = "idle"
    /\ nextCollectionData' = <<>>
    /\ cursor' = 1
    /\ pc' = "scan"
    /\ UNCHANGED <<now, propertyData, stale, response, lastIndex, matches, parsed,
                   error, requestVars, binTypeVars, resolverVars, match, filtered>>

\* one iteration of `for (const item of propertyData.binCollectionData)`,
\* lines 375-402; a break ends the call (the exception of lines 404-407 is
\* built, not thrown)
ScanStep ==
    /\ pc = "scan"
    /\ cursor <= Len(propertyData.binCollectionData)
    /\ LET item == propertyData.binCollectionData[cursor] IN
        IF isSameOrAfter(momentParse(item.collectionDate, now), momentNow(now))
        THEN IF Len(nextCollectionData) = 1
             THEN /\ nextCollectionData' =
                        IF matchesExistingDate(nextCollectionData[1].collectionDate,
                                               item.collectionDate, now)
                        THEN Append(nextCollectionData, item)
                        ELSE nextCollectionData
                  /\ pc' = "resolved"
                  /\ cursor' = cursor
             ELSE /\ nextCollectionData' = Append(nextCollectionData, item)
                  /\ IF item.binType = "Black"
                     THEN /\ pc' = "resolved"
                          /\ cursor' = cursor
                     ELSE /\ pc' = pc
                          /\ cursor' = cursor + 1
        ELSE /\ cursor' = cursor + 1
             /\ UNCHANGED <<pc, nextCollectionData>>
    /\ UNCHANGED <<now, propertyData, stale, response, lastIndex, matches, parsed,
                   error, requestVars, binTypeVars, resolverVars, match, filtered>>

\* the iterator is done
ScanEnd ==
    /\ pc = "scan"
    /\ cursor > Len(propertyData.binCollectionData)
    /\ pc' = "resolved"
    /\ UNCHANGED <<now, propertyData, nextCollectionData, stale, response, lastIndex,
                   matches, parsed, error, requestVars, binTypeVars, resolverVars,
                   loopVars>>

\* isBinDataStale, lines 56-58: the filter starts on the schedule
FilterStart ==
    /\ pc = "idle"
    /\ filtered' = <<>>
    /\ cursor' = 1
    /\ pc' = "filter"
    /\ UNCHANGED <<now, propertyData, nextCollectionData, stale, response, lastIndex,
                   matches, parsed, error, requestVars, binTypeVars, resolverVars,
                   match>>

\* Array.filter calls the callback on one more item
FilterStep ==
    /\ pc = "filter"
    /\ cursor <= Len(propertyData.binCollectionData)
    /\ LET item == propertyData.binCollectionData[cursor] IN
        filtered' = IF staleFilterCallback(now, item)
                    THEN Append(filtered, item)
                    ELSE filtered
    /\ cursor' = cursor + 1
    /\ UNCHANGED <<pc, now, propertyData, nextCollectionData, stale, response,
                   lastIndex, matches, parsed, error, requestVars, binTypeVars,
                   resolverVars, match>>

\* lines 60-66: the comparison with the threshold
FilterEnd ==
    /\ pc = "filter"
    /\ cursor > Len(propertyData.binCollectionData)
    /\ stale' = (Len(filtered) <= StaleThreshold)
    /\ pc' = "staleChecked"
    /\ UNCHANGED <<now, propertyData, nextCollectionData, response, lastIndex,
                   matches, parsed, error, requestVars, binTypeVars, resolverVars,
                   loopVars>>

NextSteps ==
    \/ ParseStart
    \/ ExtractStep
    \/ ExtractEnd
    \/ GroupStep
    \/ GroupEnd
    \/ OldParseStart
    \/ OldExtractStep
    \/ OldGroupStep
    \/ ScanStart
    \/ ScanStep
    \/ ScanEnd
    \/ FilterStart
    \/ FilterStep
    \/ FilterEnd

\* the call runs on its own thread of control with nothing to wait for: a loop
\* iteration that can be taken is taken
SpecSteps == InitSteps /\ [][NextSteps]_vars /\ WF_vars(NextSteps)

-----------------------------------------------------------------------------
(* What the claims speak of, stated on the schedule and today directly *)

\* the entry is dated today or later (a valid date, not before today)
Qualifies(e) ==
    LET mo == momentParse(e.collectionDate, now) IN
    mo.valid /\ ~DayBefore(mo, momentNow(now))

SameCalendarDate(e1, e2) ==
    LET a == momentParse(e1.collectionDate, now)
        b == momentParse(e2.collectionDate, now)
    IN  a.valid /\ b.valid /\ a.d = b.d /\ a.m = b.m /\ a.y = b.y

QualifyingPositions(sch) == {i \in 1..Len(sch) : Qualifies(sch[i])}

FirstQualifying(sch) ==
    CHOOSE i \in QualifyingPositions(sch) : \A j \in QualifyingPositions(sch) : i <= j

CountTodayOrLater(sch) == Cardinality(QualifyingPositions(sch))

-----------------------------------------------------------------------------
(* Claims about the resolver and the freshness evaluator (SpecSchedule) *)

\* C1: for every schedule and every today the resolver returns at most 2
\* entries, and when it returns 2 both have the same calendar date.
C1_AtMostTwoSameDate ==
    pc = "resolved" =>
        /\ Len(nextCollectionData) <= 2
        /\ Len(nextCollectionData) = 2 =>
               SameCalendarDate(nextCollectionData[1], nextCollectionData[2])

\* C1 witness: a two-entry result from a schedule that also holds a qualifying
\* entry of another date.
C1_Witness ==
    /\ pc = "resolved"
    /\ Len(nextCollectionData) = 2
    /\ \E i \in QualifyingPositions(propertyData.binCollectionData) :
           ~SameCalendarDate(propertyData.binCollectionData[i], nextCollectionData[1])

\* C2: the resolver never returns a two-entry result in which either entry is
\* Black, be the Black entry the first or the second qualifying entry.
C2_NoBlackInPair ==
    pc = "resolved" =>
        (Len(nextCollectionData) = 2 =>
            /\ nextCollectionData[1].binType # "Black"
            /\ nextCollectionData[2].binType # "Black")

\* C2, first half only: the first entry of a two-entry result is never Black.
C2_FirstOfPairNotBlack ==
    pc = "resolved" =>
        (Len(nextCollectionData) = 2 => nextCollectionData[1].binType # "Black")

\* C3: isBinDataStale returns true exactly when the number of entries dated
\* today or later is 3 or fewer.
C3_StaleIffAtMostThree ==
    pc = "staleChecked" =>
        (stale <=> CountTodayOrLater(propertyData.binCollectionData) <= 3)

\* C10: a non-empty result starts with the first entry, in list order, that is
\* dated today or later; no entry dated before today is in the result; the
\* result is non-empty exactly when some entry is dated today or later.
C10_FirstQualifyingInListOrder ==
    pc = "resolved" =>
        LET sch == propertyData.binCollectionData IN
        /\ (nextCollectionData # <<>>) <=> (QualifyingPositions(sch) # {})
        /\ nextCollectionData # <<>> => nextCollectionData[1] = sch[FirstQualifying(sch)]
        /\ \A k \in 1..Len(nextCollectionData) : Qualifies(nextCollectionData[k])

\* C10 witness: the first qualifying entry is dated today, follows a past
\* entry, and a later entry in the list is dated today or later as well.
C10_Witness ==
    /\ pc = "resolved"
    /\ LET sch == propertyData.binCollectionData IN
       /\ Len(sch) >= 3
       /\ ~Qualifies(sch[1])
       /\ Qualifies(sch[2])
       /\ SameDay(momentParse(sch[2].collectionDate, now), momentNow(now))
       /\ Qualifies(sch[3])
       /\ nextCollectionData # <<>>
       /\ nextCollectionData[1] = sch[2]

\* C10 witness of the list-order case: [(Green, later), (Black, sooner)] gives
\* the Green entry alone.
C10_WitnessListOrder ==
    /\ pc = "resolved"
    /\ LET sch == propertyData.binCollectionData IN
       /\ Len(sch) = 2
       /\ sch[1].binType = "Green" /\ sch[2].binType = "Black"
       /\ Qualifies(sch[1]) /\ Qualifies(sch[2])
       /\ DayBefore(momentParse(sch[2].collectionDate, now),
                    momentParse(sch[1].collectionDate, now))
       /\ nextCollectionData = <<sch[1]>>

\* the qualifying entries after the first one, in scan order
LaterQualifying(sch) ==
    {i \in QualifyingPositions(sch) : i > FirstQualifying(sch)}

NextQualifying(sch) ==
    CHOOSE i \in LaterQualifying(sch) : \A j \in LaterQualifying(sch) : i <= j

C11_WitnessPairOverPast ==
    /\ pc = "resolved"
    /\ LET sch == propertyData.binCollectionData IN
       /\ QualifyingPositions(sch) # {}
       /\ LaterQualifying(sch) # {}
       /\ NextQualifying(sch) > FirstQualifying(sch) + 1
       /\ nextCollectionData = <<sch[FirstQualifying(sch)], sch[NextQualifying(sch)]>>

\* C12: when the first qualifying entry is Black the result is that single
\* entry, even if a later entry has the same date.
C12_BlackAlone ==
    pc = "resolved" =>
        LET sch == propertyData.binCollectionData IN
        (/\ QualifyingPositions(sch) # {}
         /\ sch[FirstQualifying(sch)].binType = "Black") =>
            nextCollectionData = <<sch[FirstQualifying(sch)]>>

\* C12 witness: the first qualifying entry is Black and the next qualifying
\* entry has its date.
C12_Witness ==
    /\ pc = "resolved"
    /\ LET sch == propertyData.binCollectionData IN
       /\ QualifyingPositions(sch) # {}
       /\ sch[FirstQualifying(sch)].binType = "Black"
       /\ LaterQualifying(sch) # {}
       /\ SameCalendarDate(sch[FirstQualifying(sch)], sch[NextQualifying(sch)])
       /\ nextCollectionData = <<sch[FirstQualifying(sch)]>>

-----------------------------------------------------------------------------
(* Claims about the resolver called twice and its background refresh
   (SpecRefresh) *)

C16_RefreshLeavesResult ==
    /\ pc \in {"resolvedRefreshing", "answered", "sent", "failed"} =>
           nextCollectionData = findNextBinCollectionData(propertyData, now)
    /\ pc \in {"answered", "sent"} =>
           speech = binStringOf(findNextBinCollectionData(propertyData, now), now).value
    /\ pc = "resolvedRefreshing" =>
           (refresh \in {"none", "dispatched"} /\ calls = <<>>)

\* C16 witness: the refresh stored a new schedule before the answer was sent.
C16_Witness ==
    /\ pc = "answered"
    /\ refresh = "stored"
    /\ table # {putItem(propertyData)}
    /\ nextCollectionData # <<>>

\* C16 witness: the refresh was rejected after the answer was sent.
C16_WitnessRejected ==
    /\ pc = "sent"
    /\ refresh = "rejected"
    /\ nextCollectionData # <<>>

\* C17: the resolver signals a refresh exactly when the entries from the first
\* qualifying position to the end of the schedule number 3 or fewer.
C17_RefreshIffFewRemain ==
    pc = "resolvedRefreshing" =>
        LET sch == propertyData.binCollectionData IN
        (refreshCalls > 0) <=>
            (/\ QualifyingPositions(sch) # {}
             /\ Len(sch) - FirstQualifying(sch) + 1 <= 3)

\* C28: one call of the resolver dispatches the refresh at most once, however
\* many qualifying entries it scans, and only if the schedule has a qualifying
\* entry.
C28_RefreshAtMostOnce ==
    pc \in {"resolvedRefreshing", "resolvedRefreshingAgain"} =>
        /\ refreshCalls <= 1
        /\ refreshCalls > 0 => QualifyingPositions(propertyData.binCollectionData) # {}

\* C28 witness: the call scanned two qualifying entries, both under the refresh
\* test, and dispatched one refresh.
C28_Witness ==
    /\ pc = "resolvedRefreshing"
    /\ Len(nextCollectionData) = 2
    /\ Len(propertyData.binCollectionData) <= 4
    /\ refreshCalls = 1

-----------------------------------------------------------------------------
(* Claims about the parser (SpecParser) *)

ParseEnded == pc \in {"parsed", "threw"}

\* C6: when fewer than 3 fragments are extracted (0, 1 or 2) parseBinResponse
\* fails with the parse error and returns no schedule.
C6_FewerThanThreeFails ==
    (ParseEnded /\ Len(matches) < 3) =>
        (pc = "threw" /\ error = "BinCollectionException")

\* C7: when the markup holds no match of the fragment pattern parseBinResponse
\* fails with the bin-collection error and returns no schedule.
C7_NoMatchFails ==
    (ParseEnded /\ Len(response.frags) = 0) =>
        (pc = "threw" /\ error = "BinCollectionException" /\ parsed = <<>>)

\* C7 witness: a parse of a body without matches has ended (by throwing).
C7_Witness ==
    pc = "threw" /\ Len(response.frags) = 0 /\ error = "BinCollectionException"

\* C13: the outcome of a parse depends on the markup alone: it is the outcome
\* a parse of the same markup has when no parse went before it (the pattern's
\* lastIndex at 0), whatever was parsed earlier.
C13_ParseIndependentOfEarlierCalls ==
    ParseEnded =>
        LET fresh == parseBinResponse(response, 0) IN
        /\ (pc = "threw") = fresh.threw
        /\ parsed = fresh.value

\* C8: when parse succeeds with n fragments extracted, the schedule has exactly
\* floor((n - 3) / 3) entries (stated for n >= 3; fewer fragments are C6's case).
C8_LengthIsFloor ==
    (pc = "parsed" /\ Len(matches) >= 3) =>
        Len(parsed) = (Len(matches) - 3) \div 3

-----------------------------------------------------------------------------
(* Claims about parseBinType (SpecBinType) *)

\* the mapping as C9 words it: only a leading "Empty Standard " is removed
LeadingPrefixRemoved(text) ==
    IF text # <<>> /\ Head(text) = Tok.ES THEN Tail(text) ELSE text

KindByLeadingPrefix(text) ==
    LET rest == LeadingPrefixRemoved(text) IN
    IF rest = <<Tok.GW>> THEN "Green"
    ELSE IF rest = <<Tok.MR>> THEN "Silver"
    ELSE "Black"

\* C9: parseBinType removes only a leading "Empty Standard " and then matches
\* exactly and case-sensitively: "Garden Waste" gives Green, "Mixed Recycling"
\* Silver, every other description Black.
C9_LeadingPrefixOnly ==
    pc = "typed" => binTypeResult = KindByLeadingPrefix(binTypeArg)

\* C9, the part the code keeps: the descriptions of the spec's scenario, and
\* every description in which "Empty Standard " occurs at the start or not at all.
C9_PrefixedOrPlain ==
    (pc = "typed" /\ \A k \in 2..Len(binTypeArg) : binTypeArg[k] # Tok.ES) =>
        binTypeResult = KindByLeadingPrefix(binTypeArg)

-----------------------------------------------------------------------------
(* Claims about one request (Spec) *)

PastTheLookup ==
    pc \in {"getPropertyId", "getBinData", "putPropertyData", "buildBinString",
            "done", "failed"}

\* the cache get of this request found a record whose schedule has more than 3
\* entries dated today or later
FreshHit ==
    /\ data # NULL
    /\ JSONreadable(data.binCollectionData)
    /\ CountTodayOrLater(JSONparse(data.binCollectionData)) > 3

\* C4: when the cache holds a record for the address whose schedule is not
\* stale, obtainPropertyData returns the cached record and the request makes no
\* upstream call and no cache write (the upstream source is called exactly on
\* a miss or a stale hit).
C4_FreshHitServedFromCache ==
    (PastTheLookup /\ FreshHit) =>
        /\ pc \in {"buildBinString", "done", "failed"}
        /\ \A i \in 1..Len(calls) : calls[i].op = "get"
        /\ propertyData # NULL
        /\ propertyData.propertyId = data.propertyId
        /\ propertyData.binCollectionData = JSONparse(data.binCollectionData)

\* C5: when the schedule in hand has no entry dated today or later, the resolver
\* returns an empty result and the request ends with the bin-collection failure,
\* not with an answer and not with another kind of fault.
C5_NoQualifyingEntryIsUnavailable ==
    (/\ pc \in {"done", "failed"}
     /\ propertyData # NULL
     /\ QualifyingPositions(propertyData.binCollectionData) = {}) =>
        /\ nextCollectionData = <<>>
        /\ pc = "failed"
        /\ error = "BinCollectionException"
        /\ speech = NULL

\* C5, the part the code keeps: the resolver's result is empty and no answer is
\* spoken.
C5_EmptyResultNoAnswer ==
    (/\ pc \in {"done", "failed"}
     /\ propertyData # NULL
     /\ QualifyingPositions(propertyData.binCollectionData) = {}) =>
        /\ nextCollectionData = <<>>
        /\ pc = "failed"
        /\ speech = NULL

\* the cache get of this request failed: the client failed or no item was found
\* (data is null), or the item's schedule could not be read
LookupFailed ==
    /\ Len(calls) >= 1
    /\ calls[1].op = "get"
    /\ \/ data = NULL
       \/ ~JSONreadable(data.binCollectionData)

\* the cache put of this request has been made
PutMade ==
    /\ Len(calls) >= 1
    /\ calls[Len(calls)].op = "put"
    /\ pc \in {"buildBinString", "done", "failed"}

\* the cache put of this request failed
PutFailed == PutMade /\ ~calls[Len(calls)].ok

\* C15: a failed cache get (client error, missing item, unreadable item) is a
\* miss: the request goes on to the upstream lookup without a fault; a failed
\* cache put after a fetch does not fail the request, which answers from the
\* fetched schedule (and fails only when that schedule yields no entry).
C15_CacheFailuresTolerated ==
    /\ LookupFailed =>
           IF Len(calls) = 1
           THEN pc = "getPropertyId" /\ error = "none" /\ propertyData = NULL
           ELSE calls[2].op = "lookup"
    /\ PutFailed =>
           /\ propertyData.binCollectionData = parsed
           /\ pc = "buildBinString" => error = "none"
           /\ pc = "done" =>
                  speech = binStringOf(findNextBinCollectionData(
                               PropertyData(propertyData.addressLine1, uprn, parsed),
                               now), now).value
           /\ pc = "failed" =>
                  findNextBinCollectionData(propertyData, now) = <<>>

\* C15 witness: the get failed in the client, the put failed, and the request
\* ended with an answer.
C15_Witness ==
    /\ pc = "done"
    /\ LookupFailed
    /\ data = NULL
    /\ PutFailed
    /\ speech # NULL

\* C15 witness: the item found could not be read and the request went on to the
\* upstream lookup.
C15_WitnessUnreadable ==
    /\ pc = "getPropertyId"
    /\ data # NULL
    /\ ~JSONreadable(data.binCollectionData)
    /\ Len(calls) = 1

\* the record a request stores after its fetch: the key of its cache get, the
\* property id looked up and the whole schedule parsed
FetchedRecord ==
    [addressLine1 |-> calls[1].key,
     binCollectionData |-> JSONstringify(parsed),
     propertyId |-> uprn]

FoldCase(c) == IF c \in 65..90 THEN c + 32 ELSE c
SameIgnoringCase(a, b) ==
    /\ Len(a) = Len(b)
    /\ \A k \in 1..Len(a) : FoldCase(a[k]) = FoldCase(b[k])

\* the cache key of a device address, as the handler and the gateway build it
KeyOfAddress(addr) ==
    daoKey(encodeURIComponent(findDeviceAddress(addr).value.addressLine1),
           findDeviceAddress(addr).value.postCode)

\* C19: every cache get and cache put of a request uses one key, which is also
\* the address key of the PropertyData in hand, and that key is the key of every
\* device address that differs from the request's only in letter case.
C19_OneCaseFoldedKey ==
    /\ \A i \in 1..Len(calls) : \A a \in Addresses :
           (/\ calls[i].op \in {"get", "put"}
            /\ SameIgnoringCase(a.addressLine1, address.addressLine1)
            /\ SameIgnoringCase(a.postalCode, address.postalCode)) =>
               calls[i].key = KeyOfAddress(a)
    /\ (propertyData # NULL /\ Len(calls) >= 1) =>
           propertyData.addressLine1 = calls[1].key

\* C19 witness: a request for "a 1", "s" got and put under the key "A%201:S".
C19_Witness ==
    /\ pc = "done"
    /\ address = [addressLine1 |-> <<97, 32, 49>>, postalCode |-> <<115>>]
    /\ \E i \in 1..Len(calls) : calls[i].op = "put"
    /\ \A i \in 1..Len(calls) :
           calls[i].op \in {"get", "put"} =>
               calls[i].key = <<65, 37, 50, 48, 49, 58, 83>>
    /\ propertyData.addressLine1 = <<65, 37, 50, 48, 49, 58, 83>>

\* C20: a request whose device address lacks the address line or the postal
\* code fails with the address-incomplete error, having made no cache get, no
\* cache put and no upstream call, and with no answer.
C20_IncompleteAddressFailsFirst ==
    (/\ consentToken
     /\ address.addressLine1 = NoText \/ address.postalCode = NoText
     /\ pc \notin {"start", "findDeviceAddress"}) =>
        /\ pc = "failed"
        /\ error = "AddressIncomplete"
        /\ calls = <<>>
        /\ speech = NULL
        /\ propertyData = NULL

\* C20 witness: the address has its line but no postal code, and the request
\* has failed.
C20_Witness ==
    /\ pc = "failed"
    /\ error = "AddressIncomplete"
    /\ address.addressLine1 # NoText
    /\ address.postalCode = NoText
    /\ calls = <<>>

\* an upstream call of this request (the property lookup or the schedule fetch)
\* failed in transport: a network error or a status other than 200
TransportFailed ==
    /\ Len(calls) >= 1
    /\ calls[Len(calls)].op \in {"lookup", "fetch"}
    /\ ~calls[Len(calls)].ok

\* C21: a transport failure of either upstream call ends the request with the
\* bin-collection error, the failure a parse error ends it with, and with no
\* answer.
C21_TransportFailureIsUnavailable ==
    (pc \in {"done", "failed"} /\ TransportFailed) =>
        /\ pc = "failed"
        /\ error = "BinCollectionException"
        /\ speech = NULL

-----------------------------------------------------------------------------
(* Further claims about the parser (SpecParser) *)

\* C22: the schedule returned by parse is made of the triples of the extracted
\* fragments without the last 3, in extraction order: entry k is fragment 3k-2,
\* fragment 3k-1 and the kind of fragment 3k (counting from 1), and no field of
\* an entry comes from one of the last 3 fragments.
C22_TriplesWithoutLastThree ==
    pc = "parsed" =>
        \A k \in 1..Len(parsed) :
            /\ 3 * k <= Len(matches) - 3
            /\ parsed[k] = BinCollectionData(matches[3 * k - 2], matches[3 * k - 1],
                                             parseBinType(matches[3 * k]))

\* C23: extraction collects every match of the pattern in the markup, in order
\* of occurrence, however many there are.
C23_EveryMatchExtracted ==
    ParseEnded => matches = response.frags

\* the property lookup of this request was answered, with a body that holds no
\* property identifier
LookupFoundNoId ==
    /\ \E i \in 1..Len(calls) : calls[i].op = "lookup" /\ calls[i].ok
    /\ uprn = NoText

\* the schedule fetch of this request was answered and its parse failed
FetchParseFailed ==
    /\ \E i \in 1..Len(calls) : calls[i].op = "fetch" /\ calls[i].ok
    /\ matches = <<>>

\* C24: the failures are terminal: a request makes at most one property lookup
\* and one schedule fetch, and once either has failed (in transport, without an
\* identifier, or in its parse), or the address was incomplete, the request has
\* ended in failure with that call as its last and without an answer.
C24_FailuresAreTerminal ==
    /\ \A i, j \in 1..Len(calls) :
           (calls[i].op = calls[j].op /\ calls[i].op \in {"lookup", "fetch"}) => i = j
    /\ (TransportFailed \/ LookupFoundNoId \/ FetchParseFailed) =>
           /\ pc = "failed"
           /\ error \in {"RequestError", "BinCollectionException"}
           /\ calls[Len(calls)].op \in {"lookup", "fetch"}
           /\ speech = NULL
    /\ error # "none" => (pc = "failed" /\ speech = NULL)
    /\ error = "AddressIncomplete" => calls = <<>>

\* C24 witness: the fetch was answered, its parse failed, and the request ended
\* in failure after one lookup and one fetch.
C24_Witness ==
    /\ pc = "failed"
    /\ FetchParseFailed
    /\ error = "BinCollectionException"
    /\ Len(calls) = 3

\* C27: when the lookup response holds no property identifier the request fails
\* with the bin-collection error, makes no schedule fetch and no cache put.
C27_NoIdentifierFails ==
    LookupFoundNoId =>
        /\ pc = "failed"
        /\ error = "BinCollectionException"
        /\ \A i \in 1..Len(calls) : calls[i].op \notin {"fetch", "put"}
        /\ propertyData = NULL
        /\ speech = NULL

\* C27 witness: the lookup was answered without an identifier while the table
\* holds a record, and the request has failed.
C27_Witness ==
    /\ pc = "failed"
    /\ LookupFoundNoId
    /\ table # {}
    /\ Len(calls) = 2

\* C26: every record in the cache has a schedule with at least one entry, and
\* so has every schedule handed to the resolver.
C26_NoEmptyScheduleStored ==
    /\ \A it \in table : JSONparse(it.binCollectionData) # <<>>
    /\ (pc \in {"buildBinString", "done", "failed"} /\ propertyData # NULL) =>
           propertyData.binCollectionData # <<>>

-----------------------------------------------------------------------------
(* Claims about date texts (SpecDates) *)

\* a text of the form DD/MM/YYYY that names a day of the calendar
WellFormedDate(text) ==
    /\ Len(text) = 5
    /\ text[2] = Tok.SL
    /\ text[4] = Tok.SL
    /\ text[1] >= 1
    /\ text[3] \in 1..12
    /\ text[5] >= 0
    /\ text[1] <= DaysInMonth(text[3], text[5])

WellFormedEntry(entry) == WellFormedDate(entry.collectionDate)

\* C29: an entry whose date text is not a valid DD/MM/YYYY date is never in the
\* resolver's result and never counts as today-or-later in the freshness
\* check, and the result is the one the schedule has without such entries.
C29_MalformedDatesSkipped ==
    /\ pc = "resolved" =>
           /\ \A k \in 1..Len(nextCollectionData) :
                  WellFormedEntry(nextCollectionData[k])
           /\ nextCollectionData =
                  findNextBinCollectionData(
                      PropertyData(propertyData.addressLine1, propertyData.propertyId,
                                   SelectSeq(propertyData.binCollectionData,
                                             WellFormedEntry)),
                      now)
    /\ pc = "staleChecked" =>
           \A k \in 1..Len(propertyData.binCollectionData) :
               collectionIsTodayOrLater(now, propertyData.binCollectionData[k]) =>
                   WellFormedEntry(propertyData.binCollectionData[k])

-----------------------------------------------------------------------------
(* Claims about the records of different addresses (Spec) *)

\* device addresses to compare a request's address with: those of the requests
\* and the same address lines under another postal code, "t"
ProbeAddresses ==
    {[addressLine1 |-> a, postalCode |-> c] :
        a \in AddressLines, c \in PostalCodes \cup {<<116>>}}

\* every record a step removes from the table or adds to it is under the key of
\* the request's address, and is removed or added by its put
OnlyOwnRecordChanges ==
    \A it \in (table \ table') \cup (table' \ table) :
        /\ pc = "putPropertyData"
        /\ it.addressLine1 = KeyOfAddress(address)

\* the key of the cache get or put just made is the key of no address that
\* differs from the request's in address line or postal code after case folding
KeysNotShared ==
    (Len(calls) >= 1 /\ calls[Len(calls)].op \in {"get", "put"}) =>
        \A a \in ProbeAddresses :
            (\/ ~SameIgnoringCase(a.addressLine1, address.addressLine1)
             \/ ~SameIgnoringCase(a.postalCode, address.postalCode)) =>
                calls[Len(calls)].key # KeyOfAddress(a)

\* C30: a cache put changes only the record under the key of its address, and
\* addresses that differ in address line or postal code (after case folding)
\* never have the same key.
C30_PutTouchesOwnKeyOnly ==
    [][OnlyOwnRecordChanges]_vars /\ []KeysNotShared

\* C30 witness: a request has put its record while the table holds the record
\* of another address, which is still there.
C30_Witness ==
    /\ PutMade
    /\ calls[Len(calls)].ok
    /\ \E it \in table : it.addressLine1 = KeyOfAddress(address)
    /\ \E it \in table : it.addressLine1 # KeyOfAddress(address)

-----------------------------------------------------------------------------
(* Claims about the loops (SpecSteps) *)

StepsRunning == pc \in {"extract", "group", "extractOld", "groupOld", "scan", "filter"}
StepsEnded == pc \in {"parsed", "threw", "resolved", "staleChecked"}

\* the loop indices stay within the size of the input
StepsBounded ==
    /\ Len(matches) <= MaxMatches
    /\ pc \in {"group", "groupOld"} => cursor <= Len(matches) + 2
    /\ pc \in {"scan", "filter"} => cursor <= Len(propertyData.binCollectionData) + 1
    /\ Len(parsed) <= Len(matches)
    /\ Len(filtered) <= Len(propertyData.binCollectionData)

\* C25: every call of parseBinResponse, isBinDataStale and
\* findNextBinCollectionData that has started ends (returns or throws), its
\* loop indices within the size of its input all the while, and it makes no
\* call to the cache or the upstream site.
C25_EveryCallEnds ==
    /\ StepsRunning ~> StepsEnded
    /\ [](StepsBounded /\ calls = <<>> /\ refreshCalls = 0)

\* C25 witness: a parse that took the extraction loop to its cap of 30 matches
\* and the grouping loop over all of them has returned.
C25_Witness ==
    /\ pc = "parsed"
    /\ Len(matches) = MaxMatches
    /\ cursor >= Len(matches) - DuffMatches
    /\ Len(parsed) >= 1

\* the loops taken step by step arrive where the operators do
StepsAgreeWithCalls ==
    /\ pc = "resolved" => nextCollectionData = findNextBinCollectionData(propertyData, now)
    /\ pc = "staleChecked" => stale = isBinDataStale(propertyData.binCollectionData, now)

=============================================================================
